---- MODULE Spec2Model ----
(***************************************************************************)
(* Model of the figma-claude-proxy serverless functions: the buffered      *)
(* proxy (api/claude-proxy.ts, first and later variant), the Node          *)
(* streaming endpoint (api/claude-stream-v2.ts) and the Edge streaming     *)
(* endpoints.  One module instance is one warm function instance: the      *)
(* rate-limit store is module state shared by the requests it serves, and  *)
(* a handler runs to its first await without interleaving.                 *)
(***************************************************************************)
EXTENDS Integers, Sequences, FiniteSets, TLC

VARIABLES
    endpoint,        \* which function this instance serves
    env,             \* process.env: ANTHROPIC_API_KEY, RATE_LIMIT_REQUESTS, RATE_LIMIT_WINDOW_MS
    now,             \* Date.now()
    rateLimitStore,  \* Map<clientId, {count, resetTime}>
    reqs,            \* per request slot: the request held, its handler's position, its response
    winEnd,          \* per client: end of the window the client's calls are counted in
    winCalls,        \* per client: calls to checkRateLimit made in that window
    lastAdmit        \* the most recent call to checkRateLimit and its result

vars == <<endpoint, env, now, rateLimitStore, reqs, winEnd, winCalls, lastAdmit>>

-----------------------------------------------------------------------------
(* Bounds of the model *)

MaxTime == 3
MaxLimit == 2
MaxWindow == 2
MaxMsgs == 2
MaxFrags == 2
MaxInflight == 1

-----------------------------------------------------------------------------
(* JavaScript values.  A value is tagged with its type; a string that the   *)
(* code takes apart (split, trim, startsWith) is a sequence of characters.  *)

Undef == [t |-> "undefined"]
Nul == [t |-> "null"]
Str(s) == [t |-> "string", s |-> s]
Num(n) == [t |-> "number", n |-> n]
Arr(a) == [t |-> "array", a |-> a]
Chars(c) == [t |-> "chars", c |-> c]

Truthy(v) ==
    CASE v.t = "undefined" -> FALSE
      [] v.t = "null" -> FALSE
      [] v.t = "string" -> v.s # ""
      [] v.t = "chars" -> Len(v.c) > 0
      [] v.t = "number" -> v.n # 0
      [] OTHER -> TRUE

\* a || b
OrElse(a, b) == IF Truthy(a) THEN a ELSE b

\* Reading a property of undefined or null throws a TypeError.
Throws(v) == v.t \in {"undefined", "null"}

\* v[f] for a value on which the read does not throw
Get(v, f) == IF v.t = "object" /\ f \in DOMAIN v THEN v[f] ELSE Undef

\* s.startsWith(p) on character sequences
StartsWith(s, p) == Len(s) >= Len(p) /\ SubSeq(s, 1, Len(p)) = p

IsSpace(ch) == ch = " "

RECURSIVE TrimLeft(_)
TrimLeft(s) == IF s # <<>> /\ IsSpace(Head(s)) THEN TrimLeft(Tail(s)) ELSE s

RECURSIVE TrimRight(_)
TrimRight(s) ==
    IF s # <<>> /\ IsSpace(s[Len(s)]) THEN TrimRight(SubSeq(s, 1, Len(s) - 1)) ELSE s

\* s.trim()
Trim(s) == TrimRight(TrimLeft(s))

-----------------------------------------------------------------------------
(* Rate limiter *)

NoEntry == [present |-> FALSE]
Entry(c, r) == [present |-> TRUE, count |-> c, resetTime |-> r]

\* parseInt(process.env.RATE_LIMIT_REQUESTS || "100"): the configured values are
\* kept as the integers parseInt gives.
DefaultLimit == 100
DefaultWindow == 60000

Limit(e) == IF e.RATE_LIMIT_REQUESTS = Undef THEN DefaultLimit ELSE e.RATE_LIMIT_REQUESTS.n
Window(e) == IF e.RATE_LIMIT_WINDOW_MS = Undef THEN DefaultWindow ELSE e.RATE_LIMIT_WINDOW_MS.n

WindowExpired_Inclusive(current, t) == current.resetTime <= t
\* current.resetTime < now
WindowExpired(current, t) == current.resetTime < t

HasRoom_Inclusive(current, limit) == current.count <= limit
\* current.count < limit
HasRoom(current, limit) == current.count < limit

\* { count: 1, resetTime: now + window }
FreshEntry(current, t, window) == Entry(1, t + window)

checkRateLimit_CountsRejected(store, clientId, t, limit, window) ==
    LET current == store[clientId] IN
    IF ~current.present \/ WindowExpired(current, t)
    THEN [admit |-> TRUE,
          store |-> [store EXCEPT ![clientId] = FreshEntry(current, t, window)]]
    ELSE [admit |-> HasRoom(current, limit),
          store |-> [store EXCEPT ![clientId] = Entry(current.count + 1, current.resetTime)]]
checkRateLimit_LostUpdate(store, clientId, t, limit, window) ==
    LET current == store[clientId] IN
    IF ~current.present \/ WindowExpired(current, t)
    THEN [admit |-> TRUE,
          store |-> [store EXCEPT ![clientId] = FreshEntry(current, t, window)]]
    ELSE [admit |-> HasRoom(current, limit), store |-> store]
\* checkRateLimit(clientId): the result and the store it leaves
checkRateLimit(store, clientId, t, limit, window) ==
    LET current == store[clientId] IN
    IF ~current.present \/ WindowExpired(current, t)
    THEN [admit |-> TRUE,
          store |-> [store EXCEPT ![clientId] = FreshEntry(current, t, window)]]
    ELSE IF HasRoom(current, limit)
    THEN [admit |-> TRUE,
          store |-> [store EXCEPT ![clientId] = Entry(current.count + 1, current.resetTime)]]
    ELSE [admit |-> FALSE, store |-> store]

-----------------------------------------------------------------------------
(* Request validator of the buffered proxy *)

AllowedModelsV1 ==
    {"claude-3-5-sonnet-20241022", "claude-3-5-sonnet-20240620", "claude-3-opus-20240229",
     "claude-3-sonnet-20240229", "claude-3-haiku-20240307"}

AllowedModelsV2 ==
    {"claude-sonnet-4-5-20250929", "claude-haiku-4-5-20251001", "claude-opus-4-1-20250805",
     "claude-sonnet-4-20250514", "claude-opus-4-20250514", "claude-3-7-sonnet-20250219",
     "claude-3-5-haiku-20241022", "claude-3-haiku-20240307"}

allowedModels(variant) == IF variant = "proxy_v1" THEN AllowedModelsV1 ELSE AllowedModelsV2

MaxTokensV1 == 4096
MaxTokensV2 == 8192

MaxTokensBound(variant) == IF variant = "proxy_v1" THEN MaxTokensV1 ELSE MaxTokensV2

ErrMissingMessages == "Missing or invalid 'messages' array"
ErrEmptyMessages == "Messages array cannot be empty"
ErrRoleContent == "Each message must have 'role' and 'content'"
ErrRole == "Message role must be 'user' or 'assistant'"
ErrMissingModel == "Missing 'model' field"
ErrInvalidModel == "Invalid model. Allowed models: ..."
ErrMaxTokens(variant) ==
    IF variant = "proxy_v1" THEN "max_tokens must be between 1 and 4096"
    ELSE "max_tokens must be between 1 and 8192"

Valid == [threw |-> FALSE, valid |-> TRUE]
Invalid(reason) == [threw |-> FALSE, valid |-> FALSE, error |-> reason]
Threw == [threw |-> TRUE, valid |-> FALSE]

\* a < b and a > b on a number (the model draws max_tokens from the numbers)
JsLess(v, n) == v.t = "number" /\ v.n < n
JsGreater(v, n) == v.t = "number" /\ v.n > n

\* the body of the loop over body.messages, for one message
CheckMessage(msg) ==
    IF Throws(msg) THEN Threw
    ELSE IF ~Truthy(Get(msg, "role")) \/ ~Truthy(Get(msg, "content")) THEN Invalid(ErrRoleContent)
    ELSE IF Get(msg, "role") \notin {Str("user"), Str("assistant")} THEN Invalid(ErrRole)
    ELSE Valid

\* for (const msg of body.messages): the first message that fails decides
RECURSIVE CheckMessages(_)
CheckMessages(msgs) ==
    IF msgs = <<>> THEN Valid
    ELSE LET r == CheckMessage(Head(msgs)) IN
         IF r # Valid THEN r ELSE CheckMessages(Tail(msgs))

\* body.max_tokens && (body.max_tokens < 1 || body.max_tokens > bound)
MaxTokensRejected(tokens, bound) ==
    Truthy(tokens) /\ (JsLess(tokens, 1) \/ JsGreater(tokens, bound))

CheckModel(model, variant) ==
    IF ~Truthy(model) THEN Invalid(ErrMissingModel)
    ELSE IF model.t # "string" \/ model.s \notin allowedModels(variant) THEN Invalid(ErrInvalidModel)
    ELSE Valid

validateClaudeRequest_ModelFirst(body, variant) ==
    IF Throws(body) THEN Threw
    ELSE LET messages == Get(body, "messages")
             model == Get(body, "model")
             tokens == Get(body, "max_tokens")
         IN
         IF CheckModel(model, variant) # Valid THEN CheckModel(model, variant)
         ELSE IF ~Truthy(messages) \/ messages.t # "array" THEN Invalid(ErrMissingMessages)
         ELSE IF Len(messages.a) = 0 THEN Invalid(ErrEmptyMessages)
         ELSE IF CheckMessages(messages.a) # Valid THEN CheckMessages(messages.a)
         ELSE IF MaxTokensRejected(tokens, MaxTokensBound(variant))
              THEN Invalid(ErrMaxTokens(variant))
         ELSE Valid
validateClaudeRequest(body, variant) ==
    IF Throws(body) THEN Threw
    ELSE LET messages == Get(body, "messages")
             model == Get(body, "model")
             tokens == Get(body, "max_tokens")
         IN
         IF ~Truthy(messages) \/ messages.t # "array" THEN Invalid(ErrMissingMessages)
         ELSE IF Len(messages.a) = 0 THEN Invalid(ErrEmptyMessages)
         ELSE IF CheckMessages(messages.a) # Valid THEN CheckMessages(messages.a)
         ELSE IF CheckModel(model, variant) # Valid THEN CheckModel(model, variant)
         ELSE IF MaxTokensRejected(tokens, MaxTokensBound(variant))
              THEN Invalid(ErrMaxTokens(variant))
         ELSE Valid

-----------------------------------------------------------------------------
(* Responses *)

NoBody == [t |-> "none"]
Json(status, body, headers) == [status |-> status, kind |-> "json", body |-> body, headers |-> headers]
End(status, headers) == [status |-> status, kind |-> "end", body |-> NoBody, headers |-> headers]
Text(status, text, headers) == [status |-> status, kind |-> "text", body |-> Str(text), headers |-> headers]

\* res.setHeader(name, value) on the headers set so far
SetHeader(headers, name, value) == (name :> value) @@ headers

\* the CORS headers of api/claude-proxy.ts
ProxyCorsHeaders ==
    ("Access-Control-Allow-Origin" :> Str("*")) @@
    ("Access-Control-Allow-Methods" :> Str("POST, OPTIONS")) @@
    ("Access-Control-Allow-Headers" :> Str("Content-Type, Authorization, X-Requested-With"))

\* the CORS headers of the streaming endpoints
corsHeaders ==
    ("Access-Control-Allow-Origin" :> Str("*")) @@
    ("Access-Control-Allow-Methods" :> Str("POST, OPTIONS")) @@
    ("Access-Control-Allow-Headers" :> Str("Content-Type"))

-----------------------------------------------------------------------------
(* Error normalizer of the buffered proxy *)

\* v?.f
OptGet(v, f) == IF Throws(v) THEN Undef ELSE Get(v, f)

HttpError(status, headers, data) == [t |-> "http", status |-> status, headers |-> headers, data |-> data]
TransportError(code) == [t |-> "transport", code |-> code]
JsError(message) == [t |-> "other", message |-> message]
\* a TypeError thrown by the handler's own code
OtherError == JsError("Cannot read properties of undefined")

RetryAfterOf_Fixed(headers) == Str("60")
\* error.response.headers["retry-after"] || "60"
RetryAfterOf(headers) == OrElse(Get(headers, "retry-after"), Str("60"))

AuthMessage_Echo(upstreamMessage) ==
    OrElse(upstreamMessage, Str("Invalid or expired API credentials"))
\* the message of the 401/403 branch: a literal, the upstream message is not read
AuthMessage(upstreamMessage) == Str("Invalid or expired API credentials")

PassThroughKind_Internal(upstreamType) == Str("internal_server_error")
\* data.error?.type || "api_error"
PassThroughKind(upstreamType) == OrElse(upstreamType, Str("api_error"))

IsConnectionFailure_RefusedOnly(code) == code = "ECONNREFUSED"
\* error.code === "ECONNREFUSED" || error.code === "ENOTFOUND"
IsConnectionFailure(code) == code \in {"ECONNREFUSED", "ENOTFOUND"}

TimeoutMessage(variant) ==
    IF variant = "proxy_v1" THEN "Claude API request timed out after 30 seconds"
    ELSE "Claude API request timed out after 60 seconds"

handleProxyError(error, headers, variant) ==
    IF error.t = "http" THEN
        LET status == error.status
            data == error.data
            upstreamMessage == OptGet(Get(data, "error"), "message")
            upstreamType == OptGet(Get(data, "error"), "type")
        IN
        IF status = 429 THEN
            LET retryAfter == RetryAfterOf(error.headers) IN
            Json(429,
                 [error |-> Str("rate_limit_exceeded"),
                  message |-> OrElse(upstreamMessage, Str("Claude API rate limit reached")),
                  retry_after |-> retryAfter],
                 SetHeader(headers, "Retry-After", retryAfter))
        ELSE IF status = 401 \/ status = 403 THEN
            Json(status,
                 [error |-> Str("authentication_failed"),
                  message |-> AuthMessage(upstreamMessage)],
                 headers)
        ELSE IF status = 529 THEN
            Json(503,
                 [error |-> Str("service_unavailable"),
                  message |-> Str("Claude API is experiencing high traffic")],
                 SetHeader(headers, "Retry-After", Str("60")))
        ELSE IF status = 400 THEN
            Json(400,
                 [error |-> Str("invalid_request"),
                  message |-> OrElse(upstreamMessage, Str("Invalid request to Claude API"))],
                 headers)
        ELSE
            Json(status,
                 [error |-> PassThroughKind(upstreamType),
                  message |-> OrElse(upstreamMessage, Str("Unknown error from Claude API"))],
                 headers)
    ELSE IF error.t = "transport" /\ error.code = "ECONNABORTED" THEN
        Json(504,
             [error |-> Str("request_timeout"), message |-> Str(TimeoutMessage(variant))],
             headers)
    ELSE IF error.t = "transport" /\ IsConnectionFailure(error.code) THEN
        Json(503,
             [error |-> Str("service_unavailable"), message |-> Str("Could not connect to Claude API")],
             headers)
    ELSE
        Json(500,
             [error |-> Str("internal_server_error"),
              message |-> Str("An unexpected error occurred while proxying your request")],
             headers)

-----------------------------------------------------------------------------
(* What a handler has done when it returns or reaches its first await *)

NoCall == [t |-> "none"]
NoResp == [status |-> 0, kind |-> "none", body |-> NoBody, headers |-> <<>>]

HandlerCatch_AxiosOnly(error, headers, variant) ==
    IF error.t = "other" THEN NoResp ELSE handleProxyError(error, headers, variant)
\* catch (error) { return handleProxyError(error, res); }
HandlerCatch(error, headers, variant) == handleProxyError(error, headers, variant)

\* the handler answered: the response, the check that produced it, the store it leaves
Done(resp, stage, store) ==
    [done |-> TRUE, resp |-> resp, stage |-> stage, store |-> store, call |-> NoCall]

\* the handler issued the outbound call and awaits the provider
Await(call, store) ==
    [done |-> FALSE, resp |-> NoResp, stage |-> "upstream", store |-> store, call |-> call]

RECURSIVE UpToComma(_)
\* header.split(",")[0]
UpToComma(s) == IF s = <<>> \/ Head(s) = "," THEN <<>> ELSE <<Head(s)>> \o UpToComma(Tail(s))

Unknown == <<"u", "n", "k", "n", "o", "w", "n">>

ClientId_NoTrim(req) ==
    LET first == IF req.xff = Undef THEN Undef ELSE Chars(UpToComma(req.xff.c))
    IN OrElse(OrElse(first, req.remote), Chars(Unknown)).c
\* x-forwarded-for?.split(",")[0]?.trim() || req.socket.remoteAddress || "unknown"
ClientId(req) ==
    LET first == IF req.xff = Undef THEN Undef ELSE Chars(Trim(UpToComma(req.xff.c)))
    IN OrElse(OrElse(first, req.remote), Chars(Unknown)).c

-----------------------------------------------------------------------------
(* Buffered proxy: api/claude-proxy.ts, both variants *)

ProxyCall(req, e) == [t |-> "axios.post", body |-> req.body, apiKey |-> e.ANTHROPIC_API_KEY]

\* the JSON body of the handler's own 429
RateLimitedBody ==
    [error |-> Str("rate_limit_exceeded"),
     message |-> Str("Too many requests. Please try again later.")]

\* the handler from payload validation on, once the limiter has admitted the request
ProxyAdmitted_NoCredentialCheck(variant, req, e, store) ==
    LET validation == validateClaudeRequest(req.body, variant) IN
    IF validation.threw THEN
        Done(handleProxyError(OtherError, ProxyCorsHeaders, variant), "exception", store)
    ELSE IF ~validation.valid THEN
        Done(Json(400, [error |-> Str("invalid_request"), message |-> Str(validation.error)],
                  ProxyCorsHeaders),
             "validation", store)
    ELSE Await(ProxyCall(req, e), store)
ProxyAdmitted_CredentialFirst(variant, req, e, store) ==
    LET validation == validateClaudeRequest(req.body, variant) IN
    IF ~Truthy(e.ANTHROPIC_API_KEY) THEN
        Done(Json(500, [error |-> Str("server_configuration_error"),
                        message |-> Str("API key not configured on server")],
                  ProxyCorsHeaders),
             "credential", store)
    ELSE IF validation.threw THEN
        Done(handleProxyError(OtherError, ProxyCorsHeaders, variant), "exception", store)
    ELSE IF ~validation.valid THEN
        Done(Json(400, [error |-> Str("invalid_request"), message |-> Str(validation.error)],
                  ProxyCorsHeaders),
             "validation", store)
    ELSE Await(ProxyCall(req, e), store)
ProxyAdmitted(variant, req, e, store) ==
    LET validation == validateClaudeRequest(req.body, variant) IN
    IF validation.threw THEN
        Done(HandlerCatch(OtherError, ProxyCorsHeaders, variant), "exception", store)
    ELSE IF ~validation.valid THEN
        Done(Json(400, [error |-> Str("invalid_request"), message |-> Str(validation.error)],
                  ProxyCorsHeaders),
             "validation", store)
    ELSE IF ~Truthy(e.ANTHROPIC_API_KEY) THEN
        Done(Json(500, [error |-> Str("server_configuration_error"),
                        message |-> Str("API key not configured on server")],
                  ProxyCorsHeaders),
             "credential", store)
    ELSE Await(ProxyCall(req, e), store)

ProxySync_RefundsRejected(variant, req, e, store, t) ==
    IF req.method = "OPTIONS" THEN Done(End(200, ProxyCorsHeaders), "preflight", store)
    ELSE IF req.method # "POST" THEN
        Done(Json(405, [error |-> Str("method_not_allowed"),
                        message |-> Str("Only POST requests are supported")],
                  ProxyCorsHeaders),
             "method", store)
    ELSE LET rl == checkRateLimit(store, ClientId(req), t, Limit(e), Window(e))
             out == ProxyAdmitted(variant, req, e, rl.store)
         IN
         IF ~rl.admit THEN
             Done(Json(429, RateLimitedBody, SetHeader(ProxyCorsHeaders, "Retry-After", Str("60"))),
                  "rate_limit", rl.store)
         ELSE IF out.done THEN [out EXCEPT !.store = store]
         ELSE out
\* handler, up to its return or to the await of axios.post
ProxySync(variant, req, e, store, t) ==
    IF req.method = "OPTIONS" THEN Done(End(200, ProxyCorsHeaders), "preflight", store)
    ELSE IF req.method # "POST" THEN
        Done(Json(405, [error |-> Str("method_not_allowed"),
                        message |-> Str("Only POST requests are supported")],
                  ProxyCorsHeaders),
             "method", store)
    ELSE LET rl == checkRateLimit(store, ClientId(req), t, Limit(e), Window(e)) IN
         IF ~rl.admit THEN
             Done(Json(429, RateLimitedBody, SetHeader(ProxyCorsHeaders, "Retry-After", Str("60"))),
                  "rate_limit", rl.store)
         ELSE ProxyAdmitted(variant, req, e, rl.store)

\* the handler resumed by a successful axios.post
ProxySuccess(response) ==
    LET remaining == Get(response.headers, "anthropic-ratelimit-requests-remaining")
        reset == Get(response.headers, "anthropic-ratelimit-requests-reset")
        h1 == IF Truthy(remaining) THEN SetHeader(ProxyCorsHeaders, "X-RateLimit-Remaining", remaining)
              ELSE ProxyCorsHeaders
        h2 == IF Truthy(reset) THEN SetHeader(h1, "X-RateLimit-Reset", reset) ELSE h1
    IN Json(200, response.data, h2)

-----------------------------------------------------------------------------
(* Streaming endpoints *)

SkAnt == <<"s", "k", "-", "a", "n", "t", "-">>

\* process.env.ANTHROPIC_API_KEY?.startsWith('sk-ant-')
KeyHasPrefix(key) == key.t = "chars" /\ StartsWith(key.c, SkAnt)

ModelMapV2 ==
    ("claude-sonnet-4-5-20250929" :> "claude-sonnet-4") @@
    ("claude-haiku-4-5-20251001" :> "claude-haiku-4") @@
    ("claude-opus-4-1-20250805" :> "claude-opus-4")

ModelMapEdge ==
    ModelMapV2 @@
    ("claude-3-haiku-20240307" :> "claude-3-haiku-20240307") @@
    ("claude-3-5-sonnet-20241022" :> "claude-3-5-sonnet-20241022")

\* modelMap[model] || model
MappedModel(modelMap, model) ==
    IF model.t = "string" /\ model.s \in DOMAIN modelMap THEN Str(modelMap[model.s]) ELSE model

StreamCall(model, messages) == [t |-> "streamText", model |-> model, messages |-> messages]

\* error.toString() of an Error: its name, and its message when it has one
ErrToString(error) == IF error.message = "" THEN "Error" ELSE "Error: " \o error.message

\* error.stack: the text of the error followed by the frames of the throw
ErrStack(error) == ErrToString(error) \o "\n    at handler"

\* the catch block's JSON: error.message || 'Internal server error', error.toString()
CaughtBody(error) ==
    [error |-> OrElse(Str(error.message), Str("Internal server error")),
     details |-> Str(ErrToString(error))]

ErrMissingFields == "Missing required fields: model, messages"

\* const { model, messages } = req.body; if (!model || !messages)
StreamV2Validate(body) ==
    IF Throws(body) THEN Threw
    ELSE IF ~Truthy(Get(body, "model")) \/ ~Truthy(Get(body, "messages"))
         THEN Invalid(ErrMissingFields)
    ELSE Valid

\* api/claude-stream-v2.ts: handler, up to its return or to the await of streamText
StreamV2Sync(req, e, store) ==
    IF req.method = "OPTIONS" THEN Done(End(204, corsHeaders), "preflight", store)
    ELSE IF req.method # "POST" THEN
        Done(Json(405, [error |-> Str("Method not allowed")], corsHeaders), "method", store)
    ELSE LET validation == StreamV2Validate(req.body) IN
         IF validation.threw THEN
             Done(Json(500, CaughtBody(OtherError), corsHeaders), "exception", store)
         ELSE IF ~validation.valid THEN
             Done(Json(400, [error |-> Str(validation.error)], corsHeaders), "validation", store)
         ELSE IF ~KeyHasPrefix(e.ANTHROPIC_API_KEY) THEN
             Done(Json(500, [error |-> Str("ANTHROPIC_API_KEY not configured")], corsHeaders),
                  "credential", store)
         ELSE Await(StreamCall(MappedModel(ModelMapV2, Get(req.body, "model")),
                               Get(req.body, "messages")),
                    store)

RECURSIVE EdgeCheckMessages(_, _)
\* the loop over messages of the Edge endpoints, from index i on
EdgeCheckMessages(msgs, i) ==
    IF i > Len(msgs) THEN Valid
    ELSE LET msg == msgs[i] IN
         IF Throws(msg) THEN Threw
         ELSE IF ~Truthy(Get(msg, "role")) THEN Invalid("Message at index i is missing 'role'")
         ELSE IF Get(msg, "content") \in {Undef, Nul, Str("")}
              THEN Invalid("Message at index i is missing or has empty 'content'")
         ELSE EdgeCheckMessages(msgs, i + 1)

\* the credential checks of the Edge endpoints: the JSON body of the 500, or Undef
EdgeCredentialError(variant, key) ==
    IF ~Truthy(key) THEN
        [error |-> Str("Server configuration error: ANTHROPIC_API_KEY is not set"),
         hint |-> Str("Add ANTHROPIC_API_KEY to Vercel environment variables")]
    ELSE IF variant = "edge_a" /\ ~KeyHasPrefix(key) THEN
        [error |-> Str("Server configuration error: ANTHROPIC_API_KEY has invalid format"),
         hint |-> Str("API key should start with sk-ant-")]
    ELSE Undef

JsonHeaders == SetHeader(corsHeaders, "Content-Type", Str("application/json"))

\* the validation of the Edge endpoints: required fields, the messages array, each message
EdgeValidate(body) ==
    IF Throws(body) THEN Threw
    ELSE LET model == Get(body, "model")
             messages == Get(body, "messages")
         IN
         IF ~Truthy(model) \/ ~Truthy(messages) THEN Invalid(ErrMissingFields)
         ELSE IF messages.t # "array" \/ Len(messages.a) = 0
              THEN Invalid("messages must be a non-empty array")
         ELSE EdgeCheckMessages(messages.a, 1)

\* the Edge claude-stream handlers, up to their return or to the await of streamText
EdgeSync(variant, req, e, store) ==
    IF req.method = "OPTIONS" THEN Done(End(204, corsHeaders), "preflight", store)
    ELSE IF req.method # "POST" THEN
        Done(Text(405, "Method not allowed", corsHeaders), "method", store)
    ELSE LET validation == EdgeValidate(req.body) IN
         IF validation.threw THEN
             Done(Json(500, CaughtBody(OtherError), JsonHeaders), "exception", store)
         ELSE IF ~validation.valid THEN
             Done(Json(400, [error |-> Str(validation.error)], JsonHeaders), "validation", store)
         ELSE IF EdgeCredentialError(variant, e.ANTHROPIC_API_KEY) # Undef THEN
             Done(Json(500, EdgeCredentialError(variant, e.ANTHROPIC_API_KEY), JsonHeaders),
                  "credential", store)
         ELSE Await(StreamCall(MappedModel(ModelMapEdge, Get(req.body, "model")),
                               Get(req.body, "messages")),
                    store)

-----------------------------------------------------------------------------
(* The agent endpoint and the health endpoint *)

\* the streamText call of the agent: the prompt as the one user message
AgentCall(prompt) ==
    [t |-> "streamText", model |-> Str("claude-sonnet-4"),
     messages |-> Arr(<<[t |-> "object", role |-> Str("user"), content |-> prompt]>>)]

\* const { userPrompt } = await req.json(); if (!userPrompt)
AgentValidate(body) ==
    IF Throws(body) THEN Threw
    ELSE IF ~Truthy(Get(body, "userPrompt")) THEN Invalid("Missing required field: userPrompt")
    ELSE Valid

\* the catch block's JSON of the agent endpoint: message, toString() and stack
AgentCaughtBody(error) ==
    [error |-> OrElse(Str(error.message), Str("Internal server error")),
     details |-> Str(ErrToString(error)),
     stack |-> Str(ErrStack(error))]

\* api/agent-analyze.ts: handler, up to its return or to the await of streamText
AgentSync(req, e, store) ==
    IF req.method = "OPTIONS" THEN Done(End(204, corsHeaders), "preflight", store)
    ELSE IF req.method # "POST" THEN
        Done(Text(405, "Method not allowed", corsHeaders), "method", store)
    ELSE LET validation == AgentValidate(req.body) IN
         IF validation.threw THEN
             Done(Json(500, AgentCaughtBody(OtherError), JsonHeaders), "exception", store)
         ELSE IF ~validation.valid THEN
             Done(Json(400, [error |-> Str(validation.error)], JsonHeaders), "validation", store)
         ELSE IF EdgeCredentialError("edge_a", e.ANTHROPIC_API_KEY) # Undef THEN
             Done(Json(500, EdgeCredentialError("edge_a", e.ANTHROPIC_API_KEY), JsonHeaders),
                  "credential", store)
         ELSE Await(AgentCall(Get(req.body, "userPrompt")), store)

\* the health endpoint: the same answer to every request, whatever its method
HealthSync(req, store, t) ==
    Done([status |-> 200, kind |-> "json",
          body |-> [status |-> Str("ok"), timestamp |-> Num(t)],
          headers |-> ("Content-Type" :> Str("application/json"))],
         "health", store)

-----------------------------------------------------------------------------
(* The deployed functions *)

Buffered == {"proxy_v1", "proxy_v2"}
Streaming == {"stream_v2", "edge_a", "edge_b"}
Endpoints == Buffered \cup Streaming
Auxiliary == {"agent", "health"}
AllEndpoints == Endpoints \cup Auxiliary
\* the functions that call streamText
Sdk == Streaming \cup {"agent"}

\* the handler of endpoint ep, up to its return or its first await of the provider
HandlerSync(ep, req, e, store, t) ==
    IF ep \in Buffered THEN ProxySync(ep, req, e, store, t)
    ELSE IF ep = "stream_v2" THEN StreamV2Sync(req, e, store)
    ELSE IF ep = "agent" THEN AgentSync(req, e, store)
    ELSE IF ep = "health" THEN HealthSync(req, store, t)
    ELSE EdgeSync(ep, req, e, store)

-----------------------------------------------------------------------------
(* What the environment sends: requests, configurations, provider replies *)

Obj(messages, model, tokens) ==
    [t |-> "object", messages |-> messages, model |-> model, max_tokens |-> tokens]
Msg(role, content) == [t |-> "object", role |-> role, content |-> content]

UserMsg == Msg(Str("user"), Str("Hi"))
SystemMsg == Msg(Str("system"), Str("Hi"))

ModelBoth == Str("claude-3-haiku-20240307")
ModelV1Only == Str("claude-3-opus-20240229")
ModelV2Only == Str("claude-sonnet-4-5-20250929")
ModelUnknown == Str("gpt-4")

\* the messages a payload may carry: null, a missing role, an empty content, each role
Msgs ==
    {Nul, Msg(Undef, Str("Hi")), Msg(Str("user"), Str("")), UserMsg,
     Msg(Str("assistant"), Str("Hi")), SystemMsg}

RECURSIVE SeqsUpTo(_, _)
\* the sequences over S of length at most n
SeqsUpTo(S, n) ==
    IF n = 0 THEN {<<>>}
    ELSE LET shorter == SeqsUpTo(S, n - 1) IN
         shorter \cup {Append(q, x) : q \in shorter, x \in S}

TokenValues == {-1, 0, 1, MaxTokensV1, MaxTokensV1 + 1, MaxTokensV2, MaxTokensV2 + 1}

\* the payloads of the validation runs: every combination of the fields
RichBodies ==
    {Undef, Nul, Str("text")} \cup
    {Obj(m, model, tokens) :
        m \in {Undef, Str("text")} \cup {Arr(q) : q \in SeqsUpTo(Msgs, MaxMsgs)},
        model \in {Undef, ModelBoth, ModelV1Only, ModelV2Only, ModelUnknown},
        tokens \in {Undef} \cup {Num(n) : n \in TokenValues}}

\* the payloads of the pipeline runs: one representative of each outcome of validation
CoreBodies ==
    {Undef} \cup
    {Obj(m, model, Undef) :
        m \in {Undef, Arr(<<>>), Arr(<<UserMsg>>), Arr(<<SystemMsg>>)},
        model \in {ModelBoth, ModelUnknown}}

Forwarded == Chars(<<" ", "a", ",", "b">>)
Peer == Chars(<<"b">>)

Request(method, xff, remote, body) ==
    [method |-> method, xff |-> xff, remote |-> remote, body |-> body]

\* a request of the pool: a POST carries a payload, the other methods none
RequestsOver(origins, bodies) ==
    {Request("POST", o[1], o[2], b) : o \in origins, b \in bodies} \cup
    {Request(m, o[1], o[2], Undef) : m \in {"OPTIONS", "GET"}, o \in origins}

Origins == {<<Undef, Undef>>, <<Forwarded, Peer>>}
OneOrigin == {<<Forwarded, Peer>>}

CoreRequests == RequestsOver(OneOrigin, CoreBodies)
RichRequests == RequestsOver(OneOrigin, RichBodies)
\* the requests of the limiter runs: two clients, a payload the validator rejects
LimiterRequests == RequestsOver(Origins, {Obj(Undef, ModelBoth, Undef)})
\* the requests of the provider runs: a well-formed request, a payload without messages, a GET
ProviderRequests ==
    {Request("POST", Forwarded, Peer, Obj(Arr(<<UserMsg>>), ModelBoth, Undef)),
     Request("POST", Forwarded, Peer, Obj(Undef, ModelBoth, Undef)),
     Request("GET", Forwarded, Peer, Undef)}

\* the origins of the client-identifier runs: a forwarded header with and without a usable
\* first entry, with and without a peer address
ClientOrigins ==
    Origins \cup
    {<<Undef, Peer>>, <<Chars(<<"a">>), Undef>>, <<Chars(<<" ", ",", "a">>), Peer>>,
     <<Chars(<<>>), Undef>>}

ClientRequests ==
    {Request("POST", o[1], o[2], Obj(Undef, ModelBoth, Undef)) : o \in ClientOrigins}

ClientIds == {ClientId(Request("POST", o[1], o[2], Undef)) : o \in ClientOrigins}

GoodKey == Chars(SkAnt \o <<"k">>)
BadKey == Chars(<<"k", "e", "y">>)
Keys == {Undef, GoodKey, BadKey}

\* process.env: the credential, and for the buffered proxy the limiter's configuration
Envs(ep, limits, windows) ==
    IF ep \in Buffered
    THEN [ANTHROPIC_API_KEY : Keys,
          RATE_LIMIT_REQUESTS : {Num(n) : n \in limits},
          RATE_LIMIT_WINDOW_MS : {Num(w) : w \in windows}]
    ELSE [ANTHROPIC_API_KEY : Keys, RATE_LIMIT_REQUESTS : {Undef}, RATE_LIMIT_WINDOW_MS : {Undef}]

\* an object with one more property
With(obj, name, value) == (name :> value) @@ obj
EmptyObj == [t |-> "object"]

ApiErrorData == With(EmptyObj, "error", [t |-> "object", type |-> Str("overloaded_error"),
                                                        message |-> Str("Overloaded")])

\* an error body whose type field is one of the proxy's own kinds
ClashingErrorData == With(EmptyObj, "error", [t |-> "object", type |-> Str("invalid_request"),
                                                             message |-> Str("Bad input")])

\* error bodies of the provider: typed errors, an object without one, a page of text
ErrorData == {ApiErrorData, ClashingErrorData, EmptyObj, Str("<html>")}

RetryAfterHeaders ==
    {EmptyObj, With(EmptyObj, "retry-after", Str("30")), With(EmptyObj, "retry-after", Str(""))}

MessageData == [t |-> "object", type |-> Str("message"), stop_reason |-> Str("end_turn")]

RateLimitTelemetry ==
    With(With(EmptyObj, "anthropic-ratelimit-requests-remaining", Str("49")),
         "anthropic-ratelimit-requests-reset", Str("2025-11-03T00:00:00Z"))

\* the replies of the provider to axios.post that are no error
CoreSuccesses == {[data |-> MessageData, headers |-> h] : h \in {EmptyObj, RateLimitTelemetry}}

\* the failures of axios.post
CoreFailures ==
    {HttpError(429, EmptyObj, ApiErrorData), HttpError(529, EmptyObj, ApiErrorData),
     TransportError("ECONNABORTED"), OtherError}
RichFailures ==
    {HttpError(st, h, d) : st \in {400, 401, 403, 404, 429, 500, 529},
                           h \in RetryAfterHeaders, d \in ErrorData} \cup
    {TransportError(c) : c \in {"ECONNABORTED", "ECONNREFUSED", "ENOTFOUND", "ECONNRESET"}} \cup
    {OtherError}

\* the failures of streamText and of the provider's text stream
StreamFailures == {JsError("AI_APICallError: Overloaded"), JsError("")}

Fragments == {"He", "llo"}

-----------------------------------------------------------------------------
(* State *)

Slots == 1..MaxInflight

NoReq == Request("none", Undef, Undef, Undef)
NoReply == [t |-> "none"]

\* a slot holding no request
Idle == [pc |-> "idle"]
\* the handler suspended at the await of the provider's reply to call
Awaiting(req, call) == [pc |-> "awaiting", req |-> req, call |-> call]
\* the Node streaming handler inside its loop over the provider's text stream
StreamingState(req, call, emitted, written, gone) ==
    [pc |-> "streaming", req |-> req, call |-> call, emitted |-> emitted, written |-> written,
     gone |-> gone]
\* a completed exchange: the request, the response, the step that answered, the outbound call
\* made for it and the provider's reply to that call
Exchange(req, resp, stage, call, reply) ==
    [pc |-> "done", req |-> req, resp |-> resp, stage |-> stage, call |-> call, reply |-> reply]

NoWindow == -1
NoAdmit == [client |-> <<>>, admitted |-> FALSE, nth |-> 0, fresh |-> FALSE, at |-> 0]

\* the calls counted per window stop being counted past this number
CallsCap == MaxLimit + 2

\* a warm instance of one of the functions eps, configured with one of the limits and windows
InitOver(eps, limits, windows) ==
    /\ endpoint \in eps
    /\ env \in Envs(endpoint, limits, windows)
    /\ now = 0
    /\ rateLimitStore = [c \in ClientIds |-> NoEntry]
    /\ reqs = [i \in Slots |-> Idle]
    /\ winEnd = [c \in ClientIds |-> NoWindow]
    /\ winCalls = [c \in ClientIds |-> 0]
    /\ lastAdmit = NoAdmit

Init == InitOver(Endpoints, 1..MaxLimit, {MaxWindow})

-----------------------------------------------------------------------------
(* Steps *)

\* the bookkeeping of the limiter's windows for a call by client c that returned admitted
Counted(c, admitted) ==
    LET fresh == winEnd[c] = NoWindow \/ now > winEnd[c]
        nth == IF fresh THEN 1
               ELSE IF winCalls[c] < CallsCap THEN winCalls[c] + 1 ELSE CallsCap
    IN
    /\ winEnd' = [winEnd EXCEPT ![c] = IF fresh THEN now + Window(env) ELSE @]
    /\ winCalls' = [winCalls EXCEPT ![c] = nth]
    /\ lastAdmit' = [client |-> c, admitted |-> admitted, nth |-> nth, fresh |-> fresh, at |-> now]

\* A request arrives in a free slot i: the handler runs to its return or to its first await
\* of the provider.
Receive(i, req) ==
    /\ reqs[i] = Idle
    /\ LET out == HandlerSync(endpoint, req, env, rateLimitStore, now) IN
       /\ rateLimitStore' = out.store
       /\ reqs' = [reqs EXCEPT ![i] =
                      IF out.done THEN Exchange(req, out.resp, out.stage, NoCall, NoReply)
                      ELSE Awaiting(req, out.call)]
       /\ IF endpoint \in Buffered /\ req.method = "POST"
          THEN Counted(ClientId(req), out.stage # "rate_limit")
          ELSE UNCHANGED <<winEnd, winCalls, lastAdmit>>
    /\ UNCHANGED <<endpoint, env, now>>

\* the response of slot i has been sent: the slot is free for the next request
Release(i) ==
    /\ reqs[i].pc = "done"
    /\ reqs' = [reqs EXCEPT ![i] = Idle]
    /\ UNCHANGED <<endpoint, env, now, rateLimitStore, winEnd, winCalls, lastAdmit>>

\* Time passes.  Only the limiter of the buffered proxy reads the clock.
Tick ==
    /\ endpoint \in Buffered
    /\ now < MaxTime
    /\ now' = now + 1
    /\ UNCHANGED <<endpoint, env, rateLimitStore, reqs, winEnd, winCalls, lastAdmit>>

\* axios.post resolves: the buffered handler returns the provider's message
ProxyReplied(i, response) ==
    /\ endpoint \in Buffered
    /\ reqs[i].pc = "awaiting"
    /\ reqs' = [reqs EXCEPT ![i] =
                   Exchange(@.req, ProxySuccess(response), "upstream_ok", @.call, response)]
    /\ UNCHANGED <<endpoint, env, now, rateLimitStore, winEnd, winCalls, lastAdmit>>

\* axios.post rejects: the catch block hands the error to handleProxyError
ProxyFailed(i, error) ==
    /\ endpoint \in Buffered
    /\ reqs[i].pc = "awaiting"
    /\ reqs' = [reqs EXCEPT ![i] =
                   Exchange(@.req, HandlerCatch(error, ProxyCorsHeaders, endpoint),
                            "upstream_error", @.call, error)]
    /\ UNCHANGED <<endpoint, env, now, rateLimitStore, winEnd, winCalls, lastAdmit>>

SseHeaders ==
    SetHeader(SetHeader(SetHeader(corsHeaders, "Content-Type", Str("text/event-stream")),
                        "Cache-Control", Str("no-cache")),
              "Connection", Str("keep-alive"))

\* the event stream written to the response
Sse(frames, headers) == [status |-> 200, kind |-> "sse", body |-> Arr(frames), headers |-> headers]

Frame_Bare(chunk) == <<chunk>>
\* `data: ${chunk}\n\n`
Frame(chunk) == <<"data: ", chunk, "\n\n">>

\* the Response the Edge endpoints return: the SDK's text stream
SdkStream == [status |-> 200, kind |-> "stream", body |-> NoBody, headers |-> corsHeaders]

\* streamText resolves.  The Node endpoint starts relaying; the Edge endpoints return the
\* SDK's text stream response.
StreamAccepted(i) ==
    /\ endpoint \in Sdk
    /\ reqs[i].pc = "awaiting"
    /\ reqs' = [reqs EXCEPT ![i] =
                   IF endpoint = "stream_v2"
                   THEN StreamingState(@.req, @.call, <<>>, <<>>, FALSE)
                   ELSE Exchange(@.req, SdkStream, "upstream_ok", @.call, NoReply)]
    /\ UNCHANGED <<endpoint, env, now, rateLimitStore, winEnd, winCalls, lastAdmit>>

\* streamText rejects: the catch block answers 500 with the error's text
StreamRejected(i, error) ==
    /\ endpoint \in Sdk
    /\ reqs[i].pc = "awaiting"
    /\ reqs' = [reqs EXCEPT ![i] =
                   Exchange(@.req,
                            Json(500,
                                 IF endpoint = "agent" THEN AgentCaughtBody(error)
                                 ELSE CaughtBody(error),
                                 IF endpoint = "stream_v2" THEN corsHeaders ELSE JsonHeaders),
                            "upstream_error", @.call, error)]
    /\ UNCHANGED <<endpoint, env, now, rateLimitStore, winEnd, winCalls, lastAdmit>>

\* the provider's stream yields a chunk: the loop writes its frame
StreamChunk(i, chunk) ==
    /\ reqs[i].pc = "streaming"
    /\ Len(reqs[i].emitted) < MaxFrags
    /\ reqs' = [reqs EXCEPT ![i].emitted = Append(@, chunk),
                            ![i].written = Append(@, Frame(chunk))]
    /\ UNCHANGED <<endpoint, env, now, rateLimitStore, winEnd, winCalls, lastAdmit>>

\* the provider's stream ends: the handler writes the end marker and ends the response
StreamFinished(i) ==
    /\ reqs[i].pc = "streaming"
    /\ reqs' = [reqs EXCEPT ![i] =
                   Exchange(@.req, Sse(Append(@.written, Frame("[DONE]")), SseHeaders),
                            "stream_end", @.call, Arr(@.emitted))]
    /\ UNCHANGED <<endpoint, env, now, rateLimitStore, winEnd, winCalls, lastAdmit>>

HeadersSent_OnceSet(written) == TRUE
\* res.headersSent: setHeader sends nothing, the first res.write sends the headers
HeadersSent(written) == written # <<>>

\* the provider's stream throws: the catch block answers 500 when no header was sent yet
\* and ends the response otherwise
StreamBroke(i, error) ==
    /\ reqs[i].pc = "streaming"
    /\ reqs' = [reqs EXCEPT ![i] =
                   Exchange(@.req,
                            IF HeadersSent(@.written) THEN Sse(@.written, SseHeaders)
                            ELSE Json(500, CaughtBody(error), SseHeaders),
                            "stream_error", @.call, error)]
    /\ UNCHANGED <<endpoint, env, now, rateLimitStore, winEnd, winCalls, lastAdmit>>

\* the caller closes the connection of a response being streamed
CallerGone(i) ==
    /\ reqs[i].pc = "streaming"
    /\ ~reqs[i].gone
    /\ reqs' = [reqs EXCEPT ![i].gone = TRUE]
    /\ UNCHANGED <<endpoint, env, now, rateLimitStore, winEnd, winCalls, lastAdmit>>

\* the steps of the provider and of the caller on the requests in flight
Provider(slots, successes, failures) ==
    \/ \E i \in slots, response \in successes : ProxyReplied(i, response)
    \/ \E i \in slots, error \in failures : ProxyFailed(i, error)
    \/ \E i \in slots : StreamAccepted(i)
    \/ \E i \in slots, error \in StreamFailures : StreamRejected(i, error)
    \/ \E i \in slots, chunk \in Fragments : StreamChunk(i, chunk)
    \/ \E i \in slots : StreamFinished(i)
    \/ \E i \in slots, error \in StreamFailures : StreamBroke(i, error)
    \/ \E i \in slots : CallerGone(i)

\* The pipeline: every function, every credential, one client, the clock standing still.
Next ==
    \/ \E i \in Slots, req \in CoreRequests : Receive(i, req)
    \/ \E i \in Slots : Release(i)
    \/ Provider(Slots, CoreSuccesses, CoreFailures)

Spec == Init /\ [][Next]_vars

\* The limiter: the later buffered proxy under every limit and window, two clients, the
\* clock advancing.
InitLimiter == InitOver({"proxy_v2"}, 0..MaxLimit, 1..MaxWindow)

NextLimiter ==
    \/ \E req \in LimiterRequests : Receive(1, req)
    \/ Release(1)
    \/ Tick

SpecLimiter == InitLimiter /\ [][NextLimiter]_vars

\* The surface: every function of the repository, the agent and the health endpoint included,
\* on a request of each method.
AgentBody == [t |-> "object", userPrompt |-> Str("Check this design")]

SurfaceRequests ==
    RequestsOver(OneOrigin, {Undef, AgentBody, Obj(Arr(<<UserMsg>>), ModelBoth, Undef)})

InitSurface == InitOver(AllEndpoints, {1}, {MaxWindow})

NextSurface ==
    \/ \E req \in SurfaceRequests : Receive(1, req)
    \/ Release(1)
    \/ Provider({1}, CoreSuccesses, CoreFailures)

SpecSurface == InitSurface /\ [][NextSurface]_vars

\* Validation: every function on every payload, one request per instance.
InitValidation == InitOver(Endpoints, {MaxLimit}, {MaxWindow})

NextValidation == reqs[1] = Idle /\ \E req \in RichRequests : Receive(1, req)

SpecValidation == InitValidation /\ [][NextValidation]_vars

\* The provider: the buffered proxy on every reply to a well-formed request.
InitProvider == InitOver(Buffered, {MaxLimit}, {MaxWindow})

NextProvider ==
    \/ \E req \in ProviderRequests : Receive(1, req)
    \/ Release(1)
    \/ \E response \in CoreSuccesses : ProxyReplied(1, response)
    \/ \E error \in RichFailures : ProxyFailed(1, error)

\* axios settles every call: with a response, or with an error when the timeout of the
\* call (timeout: 60000) has passed
Settled ==
    \/ \E response \in CoreSuccesses : ProxyReplied(1, response)
    \/ \E error \in RichFailures : ProxyFailed(1, error)

SpecProvider == InitProvider /\ [][NextProvider]_vars /\ WF_vars(Settled)

\* Concurrency: the buffered proxy with one request more in flight than elsewhere, all of one
\* client, each suspended at its await of axios.post while the others arrive.
Concurrent == 1..(MaxInflight + 1)

ConcurrentRequests ==
    {Request("POST", Forwarded, Peer, Obj(Arr(<<UserMsg>>), ModelBoth, Undef))}

InitConcurrent ==
    /\ endpoint \in Buffered
    /\ env \in Envs(endpoint, 1..MaxLimit, {MaxWindow})
    /\ now = 0
    /\ rateLimitStore = [c \in ClientIds |-> NoEntry]
    /\ reqs = [i \in Concurrent |-> Idle]
    /\ winEnd = [c \in ClientIds |-> NoWindow]
    /\ winCalls = [c \in ClientIds |-> 0]
    /\ lastAdmit = NoAdmit

NextConcurrent ==
    \/ \E i \in Concurrent, req \in ConcurrentRequests : Receive(i, req)
    \/ \E i \in Concurrent : Release(i)
    \/ \E i \in Concurrent, response \in CoreSuccesses : ProxyReplied(i, response)
    \/ \E i \in Concurrent, error \in CoreFailures : ProxyFailed(i, error)
    \/ Tick

SpecConcurrent == InitConcurrent /\ [][NextConcurrent]_vars

\* The clients: the buffered proxy, both variants, on requests of every origin.
InitClient == InitOver(Buffered, {MaxLimit}, {MaxWindow})

NextClient ==
    \/ \E req \in ClientRequests : Receive(1, req)
    \/ Release(1)

SpecClient == InitClient /\ [][NextClient]_vars

-----------------------------------------------------------------------------
(* Properties: fail fast, the limiter, the order of the checks *)

\* the payload check that the handler of endpoint ep applies to a body
PayloadCheck(ep, body) ==
    IF ep \in Buffered THEN validateClaudeRequest(body, ep)
    ELSE IF ep = "stream_v2" THEN StreamV2Validate(body)
    ELSE EdgeValidate(body)

\* the credential check of endpoint ep refuses the configured key
CredentialRejected(ep, key) ==
    IF ep \in Buffered THEN ~Truthy(key)
    ELSE IF ep = "stream_v2" THEN ~KeyHasPrefix(key)
    ELSE EdgeCredentialError(ep, key) # Undef

\* slot i holds a request that has been answered
Answered(i) == reqs[i].pc = "done"

\* C1: payload-validation errors and credential-configuration errors are answered before
\* any upstream call: a request answered by the validation step (400) or by the credential
\* step (500) has made no outbound call, and a request for which an outbound call was made
\* carries a payload that passed validation on an instance whose credential was accepted.
C1_FailFast ==
    \A i \in Slots :
        /\ (Answered(i) /\ reqs[i].stage \in {"validation", "credential"}) =>
               /\ reqs[i].call = NoCall
               /\ reqs[i].resp.status = (IF reqs[i].stage = "validation" THEN 400 ELSE 500)
        /\ (reqs[i].pc # "idle" /\ reqs[i].call # NoCall) =>
               /\ PayloadCheck(endpoint, reqs[i].req.body) = Valid
               /\ ~CredentialRejected(endpoint, env.ANTHROPIC_API_KEY)

\* a well-formed request was answered 500 by the credential step without an outbound call
C1_Witness ==
    \E i \in Slots :
        /\ Answered(i)
        /\ reqs[i].stage = "credential"
        /\ reqs[i].resp.status = 500
        /\ PayloadCheck(endpoint, reqs[i].req.body) = Valid
        /\ reqs[i].call = NoCall

\* C2: with limit >= 1, the calls of one client inside one window are admitted exactly
\* while they are among the first `limit` calls of that window; a call that opens a window
\* (the client's first, or the first after the clock passed the entry's reset time) is
\* admitted and leaves the entry with count 1 and reset time now + windowMs.
C2_LimiterWindow ==
    (Limit(env) >= 1 /\ lastAdmit.nth > 0) =>
        /\ lastAdmit.admitted <=> lastAdmit.nth <= Limit(env)
        /\ lastAdmit.fresh =>
               /\ lastAdmit.admitted
               /\ rateLimitStore[lastAdmit.client] = Entry(1, lastAdmit.at + Window(env))

\* the call after the last admitted one of a window was rejected, at a later time than the
\* window opened
C2_Witness ==
    /\ Limit(env) >= 1
    /\ lastAdmit.nth = Limit(env) + 1
    /\ ~lastAdmit.admitted
    /\ lastAdmit.at > 0

\* C3: a request rejected by the local rate limiter is answered 429 with a JSON body whose
\* error is "rate_limit_exceeded" and which carries retry_after "60".
C3_LocalRejectionBody ==
    \A i \in Slots :
        (Answered(i) /\ reqs[i].stage = "rate_limit") =>
            /\ reqs[i].resp.status = 429
            /\ reqs[i].resp.body.error = Str("rate_limit_exceeded")
            /\ "retry_after" \in DOMAIN reqs[i].resp.body
            /\ reqs[i].resp.body.retry_after = Str("60")

\* the response r is the JSON error of the given status and kind
IsError(r, status, kind) == r.status = status /\ r.kind = "json" /\ r.body.error = Str(kind)

\* What the buffered handler does with request req, given the state it arrives in: slot is
\* the slot after the handler's synchronous part.
CheckOrder(req, slot) ==
    LET overLimit == ~checkRateLimit(rateLimitStore, ClientId(req), now, Limit(env), Window(env)).admit
        validation == validateClaudeRequest(req.body, endpoint)
        keySet == Truthy(env.ANTHROPIC_API_KEY)
    IN
    /\ req.method = "OPTIONS" => slot.pc = "done" /\ slot.resp.status = 200
    /\ req.method \notin {"OPTIONS", "POST"} =>
           slot.pc = "done" /\ IsError(slot.resp, 405, "method_not_allowed")
    /\ (req.method = "POST" /\ overLimit) =>
           slot.pc = "done" /\ IsError(slot.resp, 429, "rate_limit_exceeded")
    /\ (req.method = "POST" /\ ~overLimit /\ validation.threw) =>
           slot.pc = "done" /\ IsError(slot.resp, 500, "internal_server_error")
    /\ (req.method = "POST" /\ ~overLimit /\ ~validation.threw /\ ~validation.valid) =>
           slot.pc = "done" /\ IsError(slot.resp, 400, "invalid_request")
    /\ (req.method = "POST" /\ ~overLimit /\ validation.valid /\ ~keySet) =>
           slot.pc = "done" /\ IsError(slot.resp, 500, "server_configuration_error")
    /\ (req.method = "POST" /\ ~overLimit /\ validation.valid /\ keySet) =>
           slot.pc = "awaiting" /\ slot.call # NoCall

-----------------------------------------------------------------------------
(* Properties: validation of the payload *)

\* slot i holds a POST, answered or in flight
Posted(i) == reqs[i].pc # "idle" /\ reqs[i].req.method = "POST"

\* the payload has no usable messages: it is absent or no object, or its messages field is
\* missing, no sequence, or an empty sequence
MessagesUnusable(body) ==
    \/ body.t # "object"
    \/ Get(body, "messages").t # "array"
    \/ Len(Get(body, "messages").a) = 0

MentionsMessages(validation) ==
    /\ ~validation.threw
    /\ ~validation.valid
    /\ validation.error \in {ErrMissingMessages, ErrEmptyMessages}

\* C5: on the buffered proxy, for every payload whose messages are missing, no sequence or
\* empty, a body that is absent or no object included, validation returns invalid with a
\* reason that mentions messages and the handler answers 400 invalid_request.
C5_MessagesRequired ==
    \A i \in Slots :
        (endpoint \in Buffered /\ Posted(i) /\ MessagesUnusable(reqs[i].req.body)) =>
            /\ MentionsMessages(validateClaudeRequest(reqs[i].req.body, endpoint))
            /\ Answered(i)
            /\ IsError(reqs[i].resp, 400, "invalid_request")

\* the payload is an object whose messages are a sequence of objects
WellShaped(body) ==
    /\ body.t = "object"
    /\ Get(body, "messages").t = "array"
    /\ \A k \in DOMAIN Get(body, "messages").a : Get(body, "messages").a[k].t = "object"

\* some message of the payload has a role other than "user" and "assistant"
HasForeignRole(body) ==
    \E k \in DOMAIN body.messages.a :
        LET role == Get(body.messages.a[k], "role") IN
        role # Undef /\ role \notin {Str("user"), Str("assistant")}

\* slot i holds a request that the validation step answered 400, without outbound call
RejectedByValidation(i) ==
    /\ Answered(i)
    /\ reqs[i].stage = "validation"
    /\ reqs[i].resp.status = 400
    /\ reqs[i].call = NoCall

\* C6: on every chat endpoint, buffered and streaming, a request with a message whose role
\* is neither "user" nor "assistant" is rejected by validation and never forwarded to the
\* provider (stated for the instances whose credential is accepted, where nothing but
\* validation stands between the request and the provider).
C6_RolesEverywhere ==
    \A i \in Slots :
        (/\ Posted(i)
         /\ ~CredentialRejected(endpoint, env.ANTHROPIC_API_KEY)
         /\ WellShaped(reqs[i].req.body)
         /\ HasForeignRole(reqs[i].req.body)) =>
            RejectedByValidation(i)

\* every model identifier that some endpoint of the repository lists
ListedModels == AllowedModelsV1 \cup AllowedModelsV2 \cup DOMAIN ModelMapEdge

\* the allow-list that applies at endpoint ep: the validator's list on the buffered proxy;
\* the streaming endpoints have none of their own, so every listed identifier counts
AllowList(ep) == IF ep \in Buffered THEN allowedModels(ep) ELSE ListedModels

\* C7: on every chat endpoint, buffered and streaming, a request whose model is not in the
\* allow-list is rejected by validation and never forwarded to the provider, every other
\* field being valid (stated for the instances whose credential is accepted).
C7_ModelsEverywhere ==
    \A i \in Slots :
        (/\ Posted(i)
         /\ ~CredentialRejected(endpoint, env.ANTHROPIC_API_KEY)
         /\ WellShaped(reqs[i].req.body)
         /\ reqs[i].req.body.messages.a # <<>>
         /\ \A k \in DOMAIN reqs[i].req.body.messages.a : reqs[i].req.body.messages.a[k] = UserMsg
         /\ reqs[i].req.body.max_tokens = Undef
         /\ reqs[i].req.body.model.t = "string"
         /\ reqs[i].req.body.model.s \notin AllowList(endpoint)) =>
            RejectedByValidation(i)

\* C8: on the buffered proxy, a payload whose max_tokens is present and outside 1..bound
\* (4096 in the first variant, 8192 in the later one), 0 and the negative values included,
\* is rejected with 400, its other fields being valid (stated for the instances whose
\* credential is set).
C8_MaxTokensRange ==
    \A i \in Slots :
        (/\ endpoint \in Buffered
         /\ Posted(i)
         /\ ~CredentialRejected(endpoint, env.ANTHROPIC_API_KEY)
         /\ WellShaped(reqs[i].req.body)
         /\ validateClaudeRequest([reqs[i].req.body EXCEPT !.max_tokens = Undef], endpoint) = Valid
         /\ reqs[i].req.body.max_tokens.t = "number"
         /\ reqs[i].req.body.max_tokens.n \notin 1..MaxTokensBound(endpoint)) =>
            /\ ~validateClaudeRequest(reqs[i].req.body, endpoint).valid
            /\ Answered(i)
            /\ IsError(reqs[i].resp, 400, "invalid_request")

-----------------------------------------------------------------------------
(* Properties: normalization of the provider's errors *)

\* slot i holds a request whose outbound call the provider answered with HTTP status st
UpstreamStatus(i, st) ==
    /\ Answered(i)
    /\ reqs[i].stage = "upstream_error"
    /\ reqs[i].reply.t = "http"
    /\ reqs[i].reply.status = st

\* C9: an upstream 429 is answered 429 rate_limit_exceeded with retry_after equal to the
\* upstream retry-after header when that header is present and not empty, and to "60" when
\* it is absent or empty.
C9_UpstreamRateLimit ==
    \A i \in Slots :
        UpstreamStatus(i, 429) =>
            LET h == reqs[i].reply.headers IN
            /\ IsError(reqs[i].resp, 429, "rate_limit_exceeded")
            /\ reqs[i].resp.body.retry_after =
                   (IF "retry-after" \in DOMAIN h /\ h["retry-after"] # Str("")
                    THEN h["retry-after"] ELSE Str("60"))

\* an upstream 429 carrying retry-after 30 was answered with retry_after "30"
C9_Witness ==
    \E i \in Slots :
        /\ UpstreamStatus(i, 429)
        /\ "retry-after" \in DOMAIN reqs[i].reply.headers
        /\ reqs[i].reply.headers["retry-after"] = Str("30")
        /\ reqs[i].resp.body.retry_after = Str("30")

\* C9 as stated: retry_after is the upstream retry-after header whenever the header is
\* present, and "60" when it is absent.
C9_AsStated ==
    \A i \in Slots :
        UpstreamStatus(i, 429) =>
            LET h == reqs[i].reply.headers IN
            /\ IsError(reqs[i].resp, 429, "rate_limit_exceeded")
            /\ reqs[i].resp.body.retry_after =
                   (IF "retry-after" \in DOMAIN h THEN h["retry-after"] ELSE Str("60"))

\* C10: an upstream 529 is answered 503 service_unavailable with retry_after "60" in the
\* body.
C10_UpstreamOverloaded ==
    \A i \in Slots :
        UpstreamStatus(i, 529) =>
            /\ IsError(reqs[i].resp, 503, "service_unavailable")
            /\ "retry_after" \in DOMAIN reqs[i].resp.body
            /\ reqs[i].resp.body.retry_after = Str("60")

NoUpstreamResponse(i) ==
    /\ Answered(i)
    /\ reqs[i].stage = "upstream_error"
    /\ reqs[i].reply.t # "http"

InternalErrorBody ==
    [error |-> Str("internal_server_error"),
     message |-> Str("An unexpected error occurred while proxying your request")]

\* C12: a failure of the outbound call with no upstream response is classified by kind: a
\* timeout gives 504 request_timeout, a refused connection or a DNS failure gives 503
\* service_unavailable, every other failure gives 500 internal_server_error with the
\* generic message.
C12_TransportKinds ==
    \A i \in Slots :
        NoUpstreamResponse(i) =>
            LET e == reqs[i].reply
                timeout == e.t = "transport" /\ e.code = "ECONNABORTED"
                connection == e.t = "transport" /\ e.code \in {"ECONNREFUSED", "ENOTFOUND"}
            IN
            /\ timeout => IsError(reqs[i].resp, 504, "request_timeout")
            /\ connection => IsError(reqs[i].resp, 503, "service_unavailable")
            /\ (~timeout /\ ~connection) =>
                   /\ reqs[i].resp.status = 500
                   /\ reqs[i].resp.body = InternalErrorBody

\* a DNS failure was answered 503 service_unavailable
C12_Witness ==
    \E i \in Slots :
        /\ NoUpstreamResponse(i)
        /\ reqs[i].reply = TransportError("ENOTFOUND")
        /\ IsError(reqs[i].resp, 503, "service_unavailable")

\* the fixed table of error kinds and statuses; upstream is the upstream status, 0 if none
KindTable(upstream) ==
    [invalid_request |-> {400}, method_not_allowed |-> {405}, rate_limit_exceeded |-> {429},
     authentication_failed |-> {401, 403}, service_unavailable |-> {503},
     request_timeout |-> {504}, server_configuration_error |-> {500},
     internal_server_error |-> {500}, api_error |-> {upstream}]

\* the kind and the status of the error response of slot i agree with the table
AgreesWithTable(i) ==
    LET kind == reqs[i].resp.body.error
        upstream == IF reqs[i].reply.t = "http" THEN reqs[i].reply.status ELSE 0
    IN (kind.t = "string" /\ kind.s \in DOMAIN KindTable(upstream)) =>
           reqs[i].resp.status \in KindTable(upstream)[kind.s]

\* slot i holds an error response of the buffered proxy
ProxyErrorResponse(i) ==
    /\ endpoint \in Buffered
    /\ Answered(i)
    /\ reqs[i].resp.kind = "json"
    /\ reqs[i].resp.status >= 400

\* the response of slot i comes from the last branch of the normalizer's HTTP part, which
\* copies the upstream's error type
CopiesUpstreamType(i) ==
    /\ reqs[i].stage = "upstream_error"
    /\ reqs[i].reply.t = "http"
    /\ reqs[i].reply.status \notin {400, 401, 403, 429, 529}

\* C13: every error response of the buffered proxy whose kind the proxy assigns itself
\* pairs kind and status as the fixed table says; the response to any other upstream status
\* has the upstream status and, as kind, the upstream's error type copied as it is
\* (api_error when there is none).
C13_KindStatusTable ==
    \A i \in Slots :
        ProxyErrorResponse(i) =>
            IF CopiesUpstreamType(i)
            THEN /\ reqs[i].resp.status = reqs[i].reply.status
                 /\ reqs[i].resp.body.error =
                        OrElse(OptGet(Get(reqs[i].reply.data, "error"), "type"), Str("api_error"))
            ELSE /\ reqs[i].resp.body.error.s \in DOMAIN KindTable(0) \ {"api_error"}
                 /\ AgreesWithTable(i)

\* an upstream 404 without error type was answered 404 api_error
C13_Witness ==
    \E i \in Slots :
        /\ ProxyErrorResponse(i)
        /\ UpstreamStatus(i, 404)
        /\ reqs[i].reply.data = EmptyObj
        /\ IsError(reqs[i].resp, 404, "api_error")

\* C13 as stated: no error response of the buffered proxy pairs a kind of the table with
\* another status, whatever status and error type the upstream returns.
C13_AsStated == \A i \in Slots : ProxyErrorResponse(i) => AgreesWithTable(i)

-----------------------------------------------------------------------------
(* Properties: what the responses of every endpoint carry *)

\* slot i holds a request answered after an exception: one thrown by the handler's own
\* code, or a failure of the outbound call that is no upstream response
AnsweredException(i) ==
    /\ Answered(i)
    /\ \/ reqs[i].stage = "exception"
       \/ reqs[i].stage \in {"upstream_error", "stream_error"} /\ reqs[i].reply.t = "other"

\* the exception that slot i was answered after
ExceptionOf(i) == IF reqs[i].stage = "exception" THEN OtherError ELSE reqs[i].reply

\* the JSON body carries the text of the exception: its message, its toString() or its stack
CarriesExceptionText(body, exception) ==
    \E f \in DOMAIN body :
        \/ exception.message # "" /\ body[f] = Str(exception.message)
        \/ body[f] = Str(ErrToString(exception))
        \/ body[f] = Str(ErrStack(exception))

\* C14: no response body of any endpoint contains raw exception text or stack detail: an
\* unexpected failure is answered with a generic message.
C14_NoExceptionText ==
    \A i \in Slots :
        (AnsweredException(i) /\ reqs[i].resp.kind = "json") =>
            ~CarriesExceptionText(reqs[i].resp.body, ExceptionOf(i))

\* slot i holds a mid-stream abort: the stream that was being written simply ends
MidStreamAbort(i) == reqs[i].stage = "stream_error" /\ reqs[i].resp.kind = "sse"

\* C15: every error response of every endpoint, except a mid-stream abort, is a JSON object
\* with at least the fields error and message.
C15_ErrorShape ==
    \A i \in Slots :
        (Answered(i) /\ ~MidStreamAbort(i) /\ reqs[i].resp.status >= 400) =>
            /\ reqs[i].resp.kind = "json"
            /\ {"error", "message"} \subseteq DOMAIN reqs[i].resp.body

\* the credential is absent, empty, or does not start with the provider's prefix
Malformed(key) == ~Truthy(key) \/ ~KeyHasPrefix(key)

\* C16: a credential that is absent, empty or without the provider's prefix is rejected
\* before any network call with 500 server_configuration_error: a POST that passes the
\* checks before the credential check is answered so, and no outbound call is made.
C16_CredentialFormat ==
    \A i \in Slots :
        (/\ endpoint \in Endpoints
         /\ Malformed(env.ANTHROPIC_API_KEY)
         /\ Posted(i)
         /\ PayloadCheck(endpoint, reqs[i].req.body) = Valid
         /\ (Answered(i) => reqs[i].stage # "rate_limit")) =>
            /\ Answered(i)
            /\ reqs[i].call = NoCall
            /\ IsError(reqs[i].resp, 500, "server_configuration_error")

\* the headers carry the three CORS headers with the stated values
CarriesCors(headers) ==
    /\ {"Access-Control-Allow-Origin", "Access-Control-Allow-Methods",
        "Access-Control-Allow-Headers"} \subseteq DOMAIN headers
    /\ headers["Access-Control-Allow-Origin"] = Str("*")
    /\ headers["Access-Control-Allow-Methods"] = Str("POST, OPTIONS")
    /\ headers["Access-Control-Allow-Headers"] = Str("Content-Type")

\* C17: every response of every endpoint, success or failure, carries the three CORS
\* headers Access-Control-Allow-Origin: *, Access-Control-Allow-Methods: POST, OPTIONS and
\* Access-Control-Allow-Headers: Content-Type.
C17_CorsEverywhere == \A i \in Slots : Answered(i) => CarriesCors(reqs[i].resp.headers)

\* C18: an OPTIONS request to any endpoint is answered 204 without body and with the CORS
\* headers, and nothing is consulted for it: no call of the limiter is recorded, no entry of
\* its store is made, no outbound call is issued.
C18_Preflight ==
    [][\A i \in Slots :
          (reqs[i] = Idle /\ reqs'[i] # Idle /\ reqs'[i].req.method = "OPTIONS") =>
              /\ reqs'[i].pc = "done"
              /\ reqs'[i].resp.status = 204
              /\ reqs'[i].resp.kind = "end"
              /\ CarriesCors(reqs'[i].resp.headers)
              /\ reqs'[i].call = NoCall
              /\ UNCHANGED <<rateLimitStore, lastAdmit>>]_vars

-----------------------------------------------------------------------------
(* Properties: the relay of the provider's stream *)

\* one frame per fragment of the sequence, in its order
FramesOf(fragments) == [k \in 1..Len(fragments) |-> <<"data: ", fragments[k], "\n\n">>]

\* C19: in streaming mode, while the provider emits fragments the relay has written exactly
\* one `data: <fragment>` frame per fragment, in the order received; when the provider's
\* stream completes, the response is those frames followed by exactly one `data: [DONE]`
\* frame.
C19_RelayOrder ==
    \A i \in Slots :
        /\ reqs[i].pc = "streaming" => reqs[i].written = FramesOf(reqs[i].emitted)
        /\ (Answered(i) /\ reqs[i].stage = "stream_end") =>
               /\ reqs[i].resp.status = 200
               /\ reqs[i].resp.body.a =
                      FramesOf(reqs[i].reply.a) \o <<<<"data: ", "[DONE]", "\n\n">>>>

\* the provider emitted He, llo and completed, and the response was the three frames
C19_Witness ==
    \E i \in Slots :
        /\ Answered(i)
        /\ reqs[i].stage = "stream_end"
        /\ reqs[i].reply.a = <<"He", "llo">>
        /\ Len(reqs[i].resp.body.a) = 3

\* C20: once the caller has disconnected during streaming, no further chunk is read from
\* the provider's stream.
C20_StopsOnDisconnect ==
    [][\A i \in Slots :
          (reqs[i].pc = "streaming" /\ reqs[i].gone /\ reqs'[i].pc = "streaming") =>
              reqs'[i].emitted = reqs[i].emitted]_vars

-----------------------------------------------------------------------------
(* Properties: failures of the provider while streaming *)

\* the response r is a JSON error response
JsonError(r) == r.kind = "json" /\ r.status >= 400 /\ "error" \in DOMAIN r.body

\* C21: in streaming mode, a provider failure before any chunk was written to the caller
\* is answered with a JSON error response with an error status, whether the call itself
\* fails or the stream fails before its first fragment; a failure after at least one chunk
\* was written only ends the stream: the status stays 200 and the response is the frames
\* written so far, without JSON error body and without [DONE] frame.
C21_StreamFailure ==
    [][\A i \in Slots :
          (/\ endpoint \in Streaming
           /\ reqs[i].pc \in {"awaiting", "streaming"}
           /\ reqs'[i].pc = "done"
           /\ reqs'[i].stage \in {"upstream_error", "stream_error"}) =>
              IF reqs[i].pc = "streaming" /\ reqs[i].written # <<>>
              THEN /\ reqs'[i].resp.status = 200
                   /\ reqs'[i].resp.kind = "sse"
                   /\ reqs'[i].resp.body.a = FramesOf(reqs[i].emitted)
                   /\ \A k \in DOMAIN reqs'[i].resp.body.a :
                          reqs'[i].resp.body.a[k] # <<"data: ", "[DONE]", "\n\n">>
              ELSE JsonError(reqs'[i].resp)]_vars

\* the provider's stream failed after one frame was written, and the response is that frame
C21_Witness ==
    \E i \in Slots :
        /\ Answered(i)
        /\ reqs[i].stage = "stream_error"
        /\ reqs[i].resp.status = 200
        /\ reqs[i].resp.kind = "sse"
        /\ Len(reqs[i].resp.body.a) = 1

-----------------------------------------------------------------------------
(* Properties: the store of the limiter *)

\* C22: in every reachable state of the rate-limit store, for every configured limit, the
\* count of each entry is at most the configured limit; in particular the entry of a client
\* whose latest call was rejected has a count no greater than the limit.
C22_CountWithinLimit ==
    /\ \A c \in ClientIds :
           rateLimitStore[c].present => rateLimitStore[c].count <= Limit(env)
    /\ (lastAdmit.nth > 0 /\ ~lastAdmit.admitted) =>
           rateLimitStore[lastAdmit.client].count <= Limit(env)

-----------------------------------------------------------------------------
(* Properties: requests in flight at once *)

\* the latest call of the limiter admitted a request beyond the first `limit` of its window
OverAdmitted == lastAdmit.nth > 0 /\ lastAdmit.admitted /\ lastAdmit.nth > Limit(env)

\* the requests of client c that are held at once, admitted by the limiter
HeldAdmitted(c) ==
    {i \in DOMAIN reqs :
        /\ reqs[i].pc # "idle"
        /\ reqs[i].req.method = "POST"
        /\ ClientId(reqs[i].req) = c
        /\ reqs[i].pc = "done" => reqs[i].stage # "rate_limit"}

\* C23: with limit >= 1, requests of one client that are in flight at once in one instance
\* are admitted as if they had been handled one after the other: each call of the limiter
\* reads the count the call before it left, the n-th call of a window is admitted exactly
\* when n <= limit, and no entry's count exceeds the limit, however many requests of the
\* client are suspended at their upstream call.
C23_NoOverAdmission ==
    /\ ~OverAdmitted
    /\ lastAdmit.nth > 0 => (lastAdmit.admitted <=> lastAdmit.nth <= Limit(env))
    /\ \A c \in ClientIds :
           /\ rateLimitStore[c].present => rateLimitStore[c].count <= Limit(env)
           /\ now = 0 => Cardinality(HeldAdmitted(c)) <= Limit(env)

\* with limit 1, a request of a client arrived while another request of the same client was
\* suspended at its upstream call, and was rejected
C23_Witness ==
    \E i, j \in DOMAIN reqs :
        /\ i # j
        /\ Limit(env) = 1
        /\ reqs[i].pc = "awaiting"
        /\ reqs[j].pc = "done"
        /\ reqs[j].stage = "rate_limit"
        /\ ClientId(reqs[i].req) = ClientId(reqs[j].req)
        /\ lastAdmit.nth = 2
        /\ ~lastAdmit.admitted

\* C23 as stated, on the run where it shows: a request of a client is suspended at its
\* upstream call after taking the last place of the client's window, and a second request
\* of the client arrives inside the window; the second reads the count as it was before the
\* first and is admitted too, so that more than `limit` requests are admitted in the window.
C23_AsStated ==
    [][\A i, j \in DOMAIN reqs :
          (/\ i # j
           /\ reqs[i].pc = "awaiting"
           /\ reqs[j] = Idle
           /\ reqs'[j] # Idle
           /\ reqs'[j].req.method = "POST"
           /\ ClientId(reqs'[j].req) = ClientId(reqs[i].req)
           /\ rateLimitStore[ClientId(reqs[i].req)].count = Limit(env)
           /\ now <= rateLimitStore[ClientId(reqs[i].req)].resetTime) =>
              /\ reqs'[j].pc = "awaiting"
              /\ OverAdmitted']_vars

-----------------------------------------------------------------------------
(* Properties: the key of the limiter *)

\* the first entry of a forwarded-address header: the part before its first comma
FirstEntry(h) ==
    LET k == CHOOSE k \in 0..Len(h) :
                 /\ k = Len(h) \/ h[k + 1] = ","
                 /\ \A m \in 1..k : h[m] # ","
    IN SubSeq(h, 1, k)

\* s without the spaces at its ends
Stripped(s) ==
    LET solid == {k \in 1..Len(s) : s[k] # " "} IN
    IF solid = {} THEN <<>>
    ELSE SubSeq(s, CHOOSE k \in solid : \A m \in solid : k <= m,
                   CHOOSE k \in solid : \A m \in solid : k >= m)

\* the bucket a request is to be counted in
Bucket(req) ==
    IF req.xff # Undef /\ Stripped(FirstEntry(req.xff.c)) # <<>>
    THEN Stripped(FirstEntry(req.xff.c))
    ELSE IF req.remote # Undef /\ req.remote.c # <<>> THEN req.remote.c
    ELSE Unknown

\* C24: the rate-limit key of a request is the first entry of its forwarded-address header
\* when that entry is not empty, otherwise its peer address, otherwise "unknown": a POST
\* that reaches the limiter is counted in the entry of that key and in no other, so the
\* requests with neither address are all counted in the one entry "unknown".
C24_ClientKey ==
    [][\A i \in Slots :
          (/\ endpoint \in Buffered
           /\ reqs[i] = Idle
           /\ reqs'[i] # Idle
           /\ reqs'[i].req.method = "POST") =>
              LET c == Bucket(reqs'[i].req) IN
              /\ c \in ClientIds
              /\ \A d \in ClientIds \ {c} : rateLimitStore'[d] = rateLimitStore[d]
              /\ rateLimitStore'[c].present
              /\ reqs'[i].stage # "rate_limit" => rateLimitStore'[c] # rateLimitStore[c]
              /\ (reqs'[i].req.xff = Undef /\ reqs'[i].req.remote = Undef) => c = Unknown]_vars

\* two requests without forwarded address and without peer address were counted in the
\* entry "unknown"
C24_Witness ==
    \E i \in Slots :
        /\ endpoint \in Buffered
        /\ Answered(i)
        /\ reqs[i].req.method = "POST"
        /\ reqs[i].req.xff = Undef
        /\ reqs[i].req.remote = Undef
        /\ rateLimitStore[Unknown].count = 2

-----------------------------------------------------------------------------
(* Properties: the order of the validator's rules *)

\* the message is an object without role, without content, or with a role that is neither
\* "user" nor "assistant"
BadMessage(msg) ==
    \/ ~Truthy(Get(msg, "role"))
    \/ ~Truthy(Get(msg, "content"))
    \/ Get(msg, "role") \notin {Str("user"), Str("assistant")}

\* the reason given for a bad message
BadMessageReason(msg) ==
    IF ~Truthy(Get(msg, "role")) \/ ~Truthy(Get(msg, "content")) THEN ErrRoleContent ELSE ErrRole

\* The validator's rules in their order, each judged on its own: whether the payload breaks
\* the rule, and the reason the rule gives.
Rules(body, variant) ==
    LET messages == Get(body, "messages")
        model == Get(body, "model")
        tokens == Get(body, "max_tokens")
        isList == messages.t = "array"
        bad == IF isList THEN {k \in DOMAIN messages.a : BadMessage(messages.a[k])} ELSE {}
    IN
    <<[broken |-> ~isList, reason |-> ErrMissingMessages],
      [broken |-> isList /\ messages.a = <<>>, reason |-> ErrEmptyMessages],
      [broken |-> bad # {},
       reason |-> IF bad = {} THEN ErrRoleContent
                  ELSE BadMessageReason(messages.a[CHOOSE k \in bad : \A m \in bad : k <= m])],
      [broken |-> model = Undef, reason |-> ErrMissingModel],
      [broken |-> model # Undef /\ (model.t # "string" \/ model.s \notin allowedModels(variant)),
       reason |-> ErrInvalidModel],
      [broken |-> tokens.t = "number" /\ tokens.n \notin 1..MaxTokensBound(variant),
       reason |-> ErrMaxTokens(variant)]>>

\* the rules that the payload breaks
Broken(body, variant) == {k \in 1..6 : Rules(body, variant)[k].broken}

\* the earliest of them
Earliest(body, variant) ==
    CHOOSE k \in Broken(body, variant) : \A m \in Broken(body, variant) : k <= m

\* the payload is an object whose messages, when a sequence, are objects
Shaped(body) ==
    /\ body.t = "object"
    /\ Get(body, "messages").t = "array" =>
           \A k \in DOMAIN body.messages.a : body.messages.a[k].t = "object"

-----------------------------------------------------------------------------
(* Properties: the states of a streamed response *)

DoneFrame == <<"data: ", "[DONE]", "\n\n">>

\* the response r carries the end marker
HasDoneFrame(r) == r.kind = "sse" /\ \E k \in DOMAIN r.body.a : r.body.a[k] = DoneFrame

\* C26: a streamed response moves only along IDLE -> STREAMING -> COMPLETE or ABORTED.
\* STREAMING is entered only from the await of an upstream call that was accepted; COMPLETE,
\* the frames followed by the [DONE] frame, is reached only on the clean end of the
\* provider's stream while the caller is connected; an upstream error or a disconnect of the
\* caller aborts: nothing more is written, and no [DONE] frame; COMPLETE and ABORTED are left
\* only by the slot being freed, and STREAMING is never left for IDLE.
C26_StreamStates ==
    [][\A i \in Slots :
          endpoint = "stream_v2" =>
              /\ (reqs'[i].pc = "streaming" /\ reqs[i].pc # "streaming") =>
                     reqs[i].pc = "awaiting" /\ reqs[i].call # NoCall
              /\ reqs[i].pc = "streaming" => reqs'[i].pc \in {"streaming", "done"}
              /\ (reqs[i].pc = "streaming" /\ reqs'[i].pc = "done") =>
                     \/ /\ reqs'[i].stage = "stream_end"
                        /\ ~reqs[i].gone
                        /\ reqs'[i].resp.body.a = Append(reqs[i].written, DoneFrame)
                     \/ /\ reqs'[i].stage = "stream_error"
                        /\ ~HasDoneFrame(reqs'[i].resp)
              /\ (reqs[i].pc = "streaming" /\ reqs[i].gone /\ reqs'[i].pc = "streaming") =>
                     reqs'[i].written = reqs[i].written
              /\ (reqs[i].pc = "done" /\ reqs[i].stage \in {"stream_end", "stream_error"}) =>
                     reqs'[i] \in {reqs[i], Idle}]_vars

-----------------------------------------------------------------------------
(* Properties: one response per request *)

\* the stages at which the buffered handler answers a failure
FailureStages ==
    {"method", "rate_limit", "validation", "credential", "exception", "upstream_error"}

\* the exchange holds a response that was written
Responded(slot) ==
    /\ slot.resp # NoResp
    /\ slot.resp.kind \in {"json", "end"}
    /\ slot.resp.status \in 200..599

-----------------------------------------------------------------------------
(* Properties: the end of a window *)

\* C28: an entry is expired only when its reset time is strictly less than the current
\* time.  A call made at or before the reset time, at now = resetTime in particular, is
\* counted against the old window: it is admitted exactly when count < limit, the count
\* then grows by one and the reset time stays; a call made after the reset time is admitted
\* and starts a new window with count 1 and reset time now + windowMs.
C28_StrictExpiry ==
    [][\A i \in Slots :
          (/\ endpoint \in Buffered
           /\ reqs[i] = Idle
           /\ reqs'[i] # Idle
           /\ reqs'[i].req.method = "POST"
           /\ rateLimitStore[ClientId(reqs'[i].req)].present) =>
              LET c == ClientId(reqs'[i].req)
                  old == rateLimitStore[c]
                  admitted == ~(reqs'[i].pc = "done" /\ reqs'[i].stage = "rate_limit")
              IN
              IF now > old.resetTime
              THEN /\ admitted
                   /\ rateLimitStore'[c] = Entry(1, now + Window(env))
              ELSE /\ admitted <=> old.count < Limit(env)
                   /\ rateLimitStore'[c] =
                          (IF old.count < Limit(env) THEN Entry(old.count + 1, old.resetTime)
                           ELSE old)]_vars

\* a call made exactly at the reset time of the entry was admitted and counted in the old
\* window
C28_Witness ==
    /\ lastAdmit.nth > 0
    /\ lastAdmit.admitted
    /\ lastAdmit.at > 0
    /\ rateLimitStore[lastAdmit.client].resetTime = lastAdmit.at
    /\ rateLimitStore[lastAdmit.client].count = 2

-----------------------------------------------------------------------------
(* Properties: what a call of the limiter changes *)

\* C29: a call checkRateLimit(c) changes at most the store entry of client c: the entries
\* of all other clients are as before the call, and a call that returns false leaves the
\* whole store as it was, the count and the reset time of c included.
C29_LimiterFrame ==
    [][\A i \in Slots :
          (/\ endpoint \in Buffered
           /\ reqs[i] = Idle
           /\ reqs'[i] # Idle
           /\ reqs'[i].req.method = "POST") =>
              LET c == ClientId(reqs'[i].req) IN
              /\ \A d \in DOMAIN rateLimitStore \ {c} : rateLimitStore'[d] = rateLimitStore[d]
              /\ DOMAIN rateLimitStore' = DOMAIN rateLimitStore
              /\ (reqs'[i].pc = "done" /\ reqs'[i].stage = "rate_limit") =>
                     rateLimitStore' = rateLimitStore]_vars

\* a call of one client was rejected while the store held the entry of another client
C29_Witness ==
    /\ lastAdmit.nth > 0
    /\ ~lastAdmit.admitted
    /\ rateLimitStore[lastAdmit.client].present
    /\ \E d \in ClientIds \ {lastAdmit.client} : rateLimitStore[d].present

-----------------------------------------------------------------------------
(* Properties: what a request costs its client *)

\* C30: in the buffered proxy handler every POST that the limiter admits consumes one count
\* of its client's window whatever becomes of it afterwards: the count is taken when the
\* request is answered 400 for its payload, 500 for the missing credential or for an
\* exception, and it is not given back when the upstream call fails or succeeds; an OPTIONS
\* request and every other non-POST request leave the store unchanged.
C30_CountConsumed ==
    [][\A i \in Slots :
          endpoint \in Buffered =>
              /\ (reqs[i] = Idle /\ reqs'[i] # Idle /\ reqs'[i].req.method # "POST") =>
                     rateLimitStore' = rateLimitStore
              /\ (/\ reqs[i] = Idle
                  /\ reqs'[i] # Idle
                  /\ reqs'[i].req.method = "POST"
                  /\ ~(reqs'[i].pc = "done" /\ reqs'[i].stage = "rate_limit")) =>
                     LET c == ClientId(reqs'[i].req)
                         old == rateLimitStore[c]
                     IN
                     /\ rateLimitStore'[c].present
                     /\ rateLimitStore'[c].count =
                            (IF old.present /\ now <= old.resetTime THEN old.count + 1 ELSE 1)
              /\ (reqs[i].pc = "awaiting" /\ reqs'[i].pc = "done") =>
                     rateLimitStore' = rateLimitStore]_vars

\* the second request of a window was answered 400 for its payload and was counted
C30_Witness ==
    \E i \in Slots :
        /\ endpoint \in Buffered
        /\ Answered(i)
        /\ reqs[i].stage = "validation"
        /\ reqs[i].resp.status = 400
        /\ lastAdmit.nth = 2
        /\ rateLimitStore[ClientId(reqs[i].req)].count = 2

====
